---- MODULE Spec2Model ----
(***************************************************************************)
(* Model of the Mlembot chat pipeline:                                     *)
(*   - utils/discord_utils.py : fix_discord_formatting, send_discord_safe  *)
(*   - utils/conversation.py  : ConversationManager (the JSON store)       *)
(*   - bot/commands/chat.py   : Chat.ask, Chat.on_message                  *)
(*   - bot/commands/user.py   : User.wipeconvo                             *)
(*                                                                         *)
(* Text is kept run-length encoded: a string is a sequence of runs         *)
(* [c |-> character, n |-> repetitions] in which neighbouring runs differ  *)
(* in c.  Lengths, slices, strip(), the regular expressions and the        *)
(* 2000-character limit of the code are computed on that encoding, so the  *)
(* program's own constants can be used unscaled.                           *)
(***************************************************************************)
EXTENDS Integers, Sequences, FiniteSets, TLC


(***************************************************************************)
(* Strings                                                                 *)
(***************************************************************************)
\* The module's string syntax has no backquote and no emoji: BT stands for the
\* backquote character and BRAIN for the one-code-point emoji of the answer header.
BT == "^"

BRAIN == "&"

Run(c, n) == [c |-> c, n |-> n]

Rep(c, n) == IF n > 0 THEN <<Run(c, n)>> ELSE <<>>

\* e, once v has been evaluated: TLC evaluates definitions on demand, and a long
\* chain of pending definitions is evaluated as one deep nest
Then(v, e) == IF v = v THEN e ELSE e

MinOf(S) == CHOOSE x \in S : \A y \in S : x <= y

MaxOf(S) == 0 - MinOf({0 - x : x \in S})

\* number of characters in runs lo..hi of s
RECURSIVE RunsLen(_, _, _)
RunsLen(s, lo, hi) ==
    IF lo > hi THEN 0
    ELSE IF lo = hi THEN s[lo].n
    ELSE LET mid == (lo + hi) \div 2 IN RunsLen(s, lo, mid) + RunsLen(s, mid + 1, hi)

\* len(s)
StrLen(s) == RunsLen(s, 1, Len(s))

\* number of characters before run j
OffsetOf(s, j) == RunsLen(s, 1, j - 1)

\* s + t
Cat(s, t) ==
    IF s = <<>> THEN t
    ELSE IF t = <<>> THEN s
    ELSE IF s[Len(s)].c = t[1].c
         THEN SubSeq(s, 1, Len(s) - 1) \o <<Run(t[1].c, s[Len(s)].n + t[1].n)>> \o Tail(t)
         ELSE s \o t

Cat3(s, t, u) == Cat(Cat(s, t), u)

\* a string literal, given character by character
Lit(cs) ==
    LET starts == {i \in 1..Len(cs) : i = 1 \/ cs[i] # cs[i - 1]}
        nth(r) == CHOOSE x \in starts : Cardinality({y \in starts : y < x}) = r - 1
        count == Cardinality(starts)
    IN [r \in 1..count |->
           Run(cs[nth(r)], (IF r = count THEN Len(cs) + 1 ELSE nth(r + 1)) - nth(r))]

\* s[:k]
Take(s, k) ==
    IF k <= 0 THEN <<>>
    ELSE IF k >= StrLen(s) THEN s
    ELSE LET j == MinOf({i \in 1..Len(s) : OffsetOf(s, i + 1) >= k})
         IN SubSeq(s, 1, j - 1) \o <<Run(s[j].c, k - OffsetOf(s, j))>>

\* s[k:]
Drop(s, k) ==
    IF k <= 0 THEN s
    ELSE IF k >= StrLen(s) THEN <<>>
    ELSE LET j == MinOf({i \in 1..Len(s) : OffsetOf(s, i + 1) > k})
         IN <<Run(s[j].c, OffsetOf(s, j + 1) - k)>> \o SubSeq(s, j + 1, Len(s))

\* s[a:b]
Slice(s, a, b) == Take(Drop(s, a), b - a)

\* str.isspace() / the regex class \s, on the model's alphabet
IsSpace(c) == c \in {" ", "\n"}

\* the regex class \w, on the model's alphabet: letters, digits and "_"
IsWord(c) ==
    c \notin {" ", "\n", BT, BRAIN, "#", "*", "~", ".", ":", "-", "!", "'", ",", "<", ">", "@"}

\* the regex class \d
IsDigit(c) == c \in {"0", "1", "2", "3", "4", "5", "6", "7", "8", "9"}

\* s.strip()
Strip(s) ==
    LET solid == {j \in 1..Len(s) : ~IsSpace(s[j].c)}
    IN IF solid = {} THEN <<>> ELSE SubSeq(s, MinOf(solid), MaxOf(solid))

\* s.startswith(three backquotes)
StartsWithFence(s) == s # <<>> /\ s[1].c = BT /\ s[1].n >= 3

\* whether pattern p (at least one run) occurs in s with its first run ending run j
OccursAt(s, p, j) ==
    LET k == Len(p) IN
    /\ j + k - 1 <= Len(s)
    /\ s[j].c = p[1].c /\ s[j].n >= p[1].n
    /\ \A m \in 2..(k - 1) : s[j + m - 1] = p[m]
    /\ k > 1 => (s[j + k - 1].c = p[k].c /\ s[j + k - 1].n >= p[k].n)

\* s.find(p): the leftmost occurrence as [start, end), or start = -1
Find(s, p) ==
    LET at == IF p = <<>> THEN {} ELSE {j \in 1..Len(s) : OccursAt(s, p, j)} IN
    IF at = {} THEN [start |-> -1, end |-> -1]
    ELSE LET j == MinOf(at)
             st == IF Len(p) = 1 THEN OffsetOf(s, j) ELSE OffsetOf(s, j) + s[j].n - p[1].n
         IN [start |-> st, end |-> st + StrLen(p)]

\* p in s
Contains(s, p) == p # <<>> /\ \E j \in 1..Len(s) : OccursAt(s, p, j)

\* s.replace(p, r)
RECURSIVE Replace(_, _, _)
Replace(s, p, r) ==
    LET m == Find(s, p) IN
    IF m.start < 0 THEN s
    ELSE Cat3(Take(s, m.start), r, Replace(Drop(s, m.end), p, r))

\* index of the first run at or after k whose character is ch, or Len(s) + 1
NextRun(s, ch, k) ==
    LET at == {j \in k..Len(s) : s[j].c = ch} IN IF at = {} THEN Len(s) + 1 ELSE MinOf(at)

\* s.split("\n"), for the part of s from run j on
RECURSIVE SplitLines(_, _)
SplitLines(s, j) ==
    LET nl == NextRun(s, "\n", j) IN
    IF nl > Len(s) THEN <<SubSeq(s, j, Len(s))>>
    ELSE <<SubSeq(s, j, nl - 1)>> \o [x \in 1..(s[nl].n - 1) |-> <<>>] \o SplitLines(s, nl + 1)

(***************************************************************************)
(* utils/discord_utils.py                                                  *)
(***************************************************************************)
\* Discord's message limit, the literal 2000 of send_discord_safe
DISCORD_LIMIT == 2000

\* the cut of an over-long message: msg[:1997] + "..."
TRUNCATE_AT == 1997

FENCE == Rep(BT, 3)

ELLIPSIS == Rep(".", 3)

\* index of the first run at or after k that is not of word characters
SkipWord(s, k) ==
    LET at == {j \in k..Len(s) : ~IsWord(s[j].c)} IN IF at = {} THEN Len(s) + 1 ELSE MinOf(at)

\* index of the first run at or after k that is not whitespace
SkipSpace(s, k) ==
    LET at == {j \in k..Len(s) : ~IsSpace(s[j].c)} IN IF at = {} THEN Len(s) + 1 ELSE MinOf(at)

\* index of the first run at or after k that is not of digits
SkipDigits(s, k) ==
    LET at == {j \in k..Len(s) : ~IsDigit(s[j].c)} IN IF at = {} THEN Len(s) + 1 ELSE MinOf(at)

\* index of the first run of three or more backquotes at or after k, or 0
NextFence(s, k) ==
    LET at == {j \in k..Len(s) : s[j].c = BT /\ s[j].n >= 3} IN IF at = {} THEN 0 ELSE MinOf(at)

\* the matches of code_block_pattern (fence, [\w]*, \n, .*? up to a fence; DOTALL),
\* leftmost first, not overlapping: the last three backquotes of a run, word
\* characters, a newline, and then everything up to the first three backquotes
\* that follow.  used is the number of characters of run j that an earlier match
\* has taken.
RECURSIVE FindBlocks(_, _, _)
FindBlocks(s, j, used) ==
    LET opens == {i \in j..Len(s) :
                     s[i].c = BT /\ s[i].n - (IF i = j THEN used ELSE 0) >= 3}
    IN IF opens = {} THEN <<>>
       ELSE LET o == MinOf(opens)
                k == SkipWord(s, o + 1)
                l == IF k <= Len(s) /\ s[k].c = "\n" THEN NextFence(s, k + 1) ELSE 0
            IN IF l > 0
               THEN <<[start |-> OffsetOf(s, o) + s[o].n - 3,
                       end |-> OffsetOf(s, l) + 3,
                       language |-> SubSeq(s, o + 1, k - 1)]>>
                    \o FindBlocks(s, l, 3)
               ELSE FindBlocks(s, o + 1, 0)

code_block_ranges(s) == FindBlocks(s, 1, 0)

\* the decimal digits of i
RECURSIVE Decimal(_)
Decimal(i) ==
    LET d == <<"0", "1", "2", "3", "4", "5", "6", "7", "8", "9">>[(i % 10) + 1]
    IN IF i < 10 THEN Rep(d, 1) ELSE Cat(Decimal(i \div 10), Rep(d, 1))

PLACEHOLDER_HEAD == Lit(<<"_", "_", "C", "O", "D", "E", "_", "B", "L", "O", "C", "K", "_">>)

\* f"__CODE_BLOCK_{i}__"
placeholder(i) == Cat3(PLACEHOLDER_HEAD, Decimal(i), Rep("_", 2))

\* re.sub(code_block_pattern, replace_code_block, full_text): block i becomes
\* placeholder(i - 1)
RECURSIVE replace_code_block(_, _, _, _)
replace_code_block(s, blocks, i, last) ==
    IF i > Len(blocks) THEN Drop(s, last)
    ELSE Cat3(Slice(s, last, blocks[i].start), placeholder(i - 1),
              replace_code_block(s, blocks, i + 1, blocks[i].end))

\* the loop restoring the code blocks: fixed_text.replace(placeholder, code_block)
RECURSIVE restore_code_blocks(_, _, _, _)
restore_code_blocks(fixed, s, blocks, i) ==
    IF i > Len(blocks) THEN fixed
    ELSE LET restored == Replace(fixed, placeholder(i - 1),
                                 Slice(s, blocks[i].start, blocks[i].end))
         IN Then(restored, restore_code_blocks(restored, s, blocks, i + 1))

LineStart(s, j) == j = 1 \/ s[j - 1].c = "\n"

BOLD == Rep("*", 2)

\* re.sub(r'^(#{4,})\s+(.+?)$', r'**\2**', text, flags=re.MULTILINE), from run
\* `from` on.  The hashes are followed by the longest whitespace that still leaves
\* one character other than a newline for the group, which runs to the end of its
\* line.
RECURSIVE fix_headers(_, _)
fix_headers(s, from) ==
    LET L == Len(s)
        cands == {i \in from..L : /\ s[i].c = "#" /\ s[i].n >= 4 /\ LineStart(s, i)
                                  /\ i + 1 <= L /\ IsSpace(s[i + 1].c)}
    IN IF cands = {} THEN SubSeq(s, from, L)
       ELSE LET j == MinOf(cands)
                w == SkipSpace(s, j + 1)
                e == NextRun(s, "\n", w)
                before == SubSeq(s, from, j - 1)
            IN IF w <= L
               THEN Cat3(before, Cat3(BOLD, SubSeq(s, w, e - 1), BOLD), fix_headers(s, e))
               ELSE IF s[L].c = " " /\ (s[L].n >= 2 \/ L > j + 1)
               THEN Cat(before, Cat3(BOLD, Rep(" ", 1), BOLD))
               ELSE IF s[L].c = "\n" /\ L - 1 > j /\ (s[L - 1].n >= 2 \/ L - 1 > j + 1)
               THEN Cat3(before, Cat3(BOLD, Rep(" ", 1), BOLD), <<s[L]>>)
               ELSE Cat(SubSeq(s, from, j), fix_headers(s, j + 1))

\* re.sub(r'^(#{1,3})([^\s#].+?)$', r'\1 \2', text, flags=re.MULTILINE), from run
\* `from` on
RECURSIVE fix_header_spacing(_, _)
fix_header_spacing(s, from) ==
    LET L == Len(s)
        cands == {i \in from..L :
                     /\ s[i].c = "#" /\ s[i].n <= 3 /\ LineStart(s, i)
                     /\ i + 1 <= L /\ ~IsSpace(s[i + 1].c)
                     /\ (s[i + 1].n >= 2 \/ (i + 2 <= L /\ s[i + 2].c # "\n"))}
    IN IF cands = {} THEN SubSeq(s, from, L)
       ELSE LET j == MinOf(cands)
                e == NextRun(s, "\n", j + 1)
            IN Cat3(SubSeq(s, from, j), Cat(Rep(" ", 1), SubSeq(s, j + 1, e - 1)),
                    fix_header_spacing(s, e))

\* re.sub of  ch{atLeast,}([^ch]+?)ch{atLeast,}  by  ch*to \1 ch*to, from run
\* `from` on
RECURSIVE collapse_markers(_, _, _, _, _)
collapse_markers(s, ch, atLeast, to, from) ==
    LET L == Len(s)
        cands == {i \in from..L : s[i].c = ch /\ s[i].n >= atLeast}
    IN IF cands = {} THEN SubSeq(s, from, L)
       ELSE LET j == MinOf(cands)
                k == NextRun(s, ch, j + 1)
            IN IF k <= L /\ s[k].n >= atLeast
               THEN Cat3(SubSeq(s, from, j - 1),
                         Cat3(Rep(ch, to), SubSeq(s, j + 1, k - 1), Rep(ch, to)),
                         collapse_markers(s, ch, atLeast, to, k + 1))
               ELSE Cat(SubSeq(s, from, j), collapse_markers(s, ch, atLeast, to, j + 1))

\* fix_discord_formatting with the marker rules applied before the header rules
fix_discord_formatting_markers_first(text) ==
    LET t1 == collapse_markers(text, "*", 4, 3, 1)
        t2 == collapse_markers(t1, "_", 3, 2, 1)
        t3 == collapse_markers(t2, "~", 3, 2, 1)
        t4 == fix_headers(t3, 1)
        t5 == fix_header_spacing(t4, 1)
    IN Then(text, Then(t1, Then(t2, Then(t3, Then(t4, t5)))))

fix_discord_formatting(text) ==
    LET t1 == fix_headers(text, 1)
        t2 == fix_header_spacing(t1, 1)
        t3 == collapse_markers(t2, "*", 4, 3, 1)
        t4 == collapse_markers(t3, "_", 3, 2, 1)
        t5 == collapse_markers(t4, "~", 3, 2, 1)
    IN Then(text, Then(t1, Then(t2, Then(t3, Then(t4, t5)))))

\* re.search(r"(^|\n)-\s", text)
HasBullet(s) ==
    \E j \in 1..Len(s) :
        /\ s[j].c = "-" /\ s[j].n = 1 /\ LineStart(s, j)
        /\ j + 1 <= Len(s) /\ IsSpace(s[j + 1].c)

\* re.search(r"(^|\n)\d+\.\s", text)
HasNumberedItem(s) ==
    \E j \in 1..Len(s) :
        LET d == SkipDigits(s, j) IN
        /\ IsDigit(s[j].c) /\ LineStart(s, j)
        /\ d + 1 <= Len(s) /\ s[d].c = "." /\ s[d].n = 1 /\ IsSpace(s[d + 1].c)

INGREDIENTS ==
    Lit(<<"*", "*", "I", "n", "g", "r", "e", "d", "i", "e", "n", "t", "s", ":", "*", "*">>)

INSTRUCTIONS ==
    Lit(<<"*", "*", "I", "n", "s", "t", "r", "u", "c", "t", "i", "o", "n", "s", ":", "*", "*">>)

looks_like_clean_markdown(text) ==
    \/ Contains(text, INGREDIENTS)
    \/ Contains(text, INSTRUCTIONS)
    \/ HasBullet(text)
    \/ HasNumberedItem(text)

\* f"```{language}\n{current_chunk}\n```"
fenced(language, body) ==
    Cat3(Cat(FENCE, language), Rep("\n", 1), Cat3(body, Rep("\n", 1), FENCE))

\* the loop over lines of split_code_block
RECURSIVE split_lines_loop(_, _, _, _, _)
split_lines_loop(lines, i, current_chunk, language, max_content_length) ==
    IF i > Len(lines)
    THEN IF current_chunk # <<>> THEN <<fenced(language, current_chunk)>> ELSE <<>>
    ELSE LET line == lines[i] IN
         IF StrLen(current_chunk) + StrLen(line) + 1 > max_content_length
         THEN (IF current_chunk # <<>> THEN <<fenced(language, current_chunk)>> ELSE <<>>)
              \o split_lines_loop(lines, i + 1, line, language, max_content_length)
         ELSE split_lines_loop(lines, i + 1,
                  Cat(IF current_chunk # <<>> THEN Cat(current_chunk, Rep("\n", 1))
                      ELSE current_chunk, line),
                  language, max_content_length)

split_code_block(code_block, language) ==
    LET content == Strip(Slice(code_block, 3 + StrLen(language), StrLen(code_block) - 3))
        max_content_length == DISCORD_LIMIT - (3 + StrLen(language) + 2 + 3)
    IN split_lines_loop(SplitLines(content, 1), 1, <<>>, language, max_content_length)

\* One step of the chunk buffer: piece is appended to current_chunk unless the
\* two together exceed the limit, in which case current_chunk is flushed
\* (stripped, when not blank) and piece starts the next chunk.
\* st = [chunks, current_chunk]
add_piece(st, piece) ==
    IF StrLen(st.current_chunk) + StrLen(piece) > DISCORD_LIMIT
    THEN [chunks |-> IF Strip(st.current_chunk) # <<>>
                     THEN Append(st.chunks, Strip(st.current_chunk))
                     ELSE st.chunks,
          current_chunk |-> piece]
    ELSE [chunks |-> st.chunks, current_chunk |-> Cat(st.current_chunk, piece)]

RECURSIVE add_pieces(_, _, _)
add_pieces(st, pieces, i) ==
    IF i > Len(pieces) THEN st
    ELSE LET st1 == add_piece(st, pieces[i]) IN Then(st1, add_pieces(st1, pieces, i + 1))

\* the loop over code_block_ranges
RECURSIVE chunk_loop(_, _, _, _, _)
chunk_loop(fixed_text, ranges, i, last_end, st) ==
    IF i > Len(ranges)
    THEN LET fin == add_piece(st, Drop(fixed_text, last_end)) IN
         IF Strip(fin.current_chunk) # <<>>
         THEN Append(fin.chunks, Strip(fin.current_chunk))
         ELSE fin.chunks
    ELSE LET r == ranges[i]
             st1 == add_piece(st, Slice(fixed_text, last_end, r.start))
             code_block == Slice(fixed_text, r.start, r.end)
             st2 == IF StrLen(code_block) > DISCORD_LIMIT
                    THEN add_pieces(st1, split_code_block(code_block, r.language), 1)
                    ELSE add_piece(st1, code_block)
         IN Then(st1, Then(st2, chunk_loop(fixed_text, ranges, i + 1, r.end, st2)))

\* fixed_text of send_discord_safe: the code blocks are taken out, the rest is
\* repaired, the code blocks are put back
fixed_text_of(full_text) ==
    LET blocks == code_block_ranges(full_text)
        text_without_code == replace_code_block(full_text, blocks, 1, 0)
        repaired == fix_discord_formatting(text_without_code)
    IN Then(blocks, Then(text_without_code, Then(repaired,
            restore_code_blocks(repaired, full_text, blocks, 1))))

\* the chunks list of send_discord_safe
chunks_of(full_text) ==
    LET fixed_text == fixed_text_of(full_text)
        ranges == code_block_ranges(fixed_text)
    IN Then(fixed_text, Then(ranges,
            chunk_loop(fixed_text, ranges, 1, 0, [chunks |-> <<>>, current_chunk |-> <<>>])))

\* wrap_in_markdown after the auto-disable
effective_wrap(full_text, wrap_in_markdown) ==
    wrap_in_markdown /\ ~looks_like_clean_markdown(fixed_text_of(full_text))

\* f"```markdown\n{chunk}\n```"
MARKDOWN_OPEN == Cat(FENCE, Lit(<<"m", "a", "r", "k", "d", "o", "w", "n", "\n">>))

wrapped(chunk) == Cat3(MARKDOWN_OPEN, chunk, Cat(Rep("\n", 1), FENCE))

\* message_of without the cut at the limit
message_of_uncut(chunk, wrap) ==
    LET c == Strip(chunk) IN IF wrap /\ ~StartsWithFence(c) THEN wrapped(c) ELSE c

\* the message built from one chunk of the send loop (the chunk is not blank)
message_of(chunk, wrap) ==
    LET c == Strip(chunk)
        msg == IF wrap /\ ~StartsWithFence(c) THEN wrapped(c) ELSE c
    IN IF StrLen(msg) > DISCORD_LIMIT THEN Cat(Take(msg, TRUNCATE_AT), ELLIPSIS) ELSE msg

(***************************************************************************)
(* send_discord_safe as a process: the call, then one step per chunk of     *)
(* the send loop.  A send to the platform either succeeds or raises, and a  *)
(* raise leaves send_discord_safe at once.                                  *)
(***************************************************************************)
TargetKinds == {"Interaction", "Message", "Other"}

\* the state of one call of send_discord_safe, just after the chunks are built
send_call(target, full_text, wrap_in_markdown) ==
    IF StrLen(Strip(full_text)) = 0
    THEN [pc |-> "returned", target |-> target, wrap |-> wrap_in_markdown,
          chunks |-> <<>>, i |-> 1, sent |-> <<>>]
    ELSE [pc |-> "loop", target |-> target,
          wrap |-> effective_wrap(full_text, wrap_in_markdown),
          chunks |-> chunks_of(full_text), i |-> 1, sent |-> <<>>]

\* send_chunk when a send that fails is passed over
send_chunk_continuing(c, delivered) ==
    IF c.i > Len(c.chunks) THEN [c EXCEPT !.pc = "returned"]
    ELSE IF Strip(c.chunks[c.i]) = <<>> THEN [c EXCEPT !.i = c.i + 1]
    ELSE IF c.target = "Other" THEN [c EXCEPT !.pc = "raised"]
    ELSE IF delivered
         THEN [c EXCEPT !.sent = Append(c.sent, message_of(c.chunks[c.i], c.wrap)),
                        !.i = c.i + 1]
         ELSE [c EXCEPT !.i = c.i + 1]

\* one iteration of "for chunk in chunks"; delivered tells whether the
\* platform accepts the message
send_chunk(c, delivered) ==
    IF c.i > Len(c.chunks) THEN [c EXCEPT !.pc = "returned"]
    ELSE IF Strip(c.chunks[c.i]) = <<>> THEN [c EXCEPT !.i = c.i + 1]
    ELSE IF c.target = "Other" THEN [c EXCEPT !.pc = "raised"]
    ELSE IF delivered
         THEN [c EXCEPT !.sent = Append(c.sent, message_of(c.chunks[c.i], c.wrap)),
                        !.i = c.i + 1]
         ELSE [c EXCEPT !.pc = "raised"]

\* Inputs of the sender: texts made of at most MaxSegments segments
MaxSegments == 3

Word(ch, n) == Rep(ch, n)

\* a fenced code block: fence, language tag, newline, body, fence
CodeBlock(language, body) == Cat3(Cat(FENCE, language), Rep("\n", 1), Cat(body, FENCE))

\* k lines of n characters each, every line ended by a newline
RECURSIVE Lines(_, _, _)
Lines(ch, n, k) ==
    IF k = 0 THEN <<>> ELSE Cat3(Word(ch, n), Rep("\n", 1), Lines(ch, n, k - 1))

\* plain text, a 5000-character text of five lines among it, and code blocks
\* below and above the limit, the last one a single line
Segments ==
    { Lit(<<"h", "i">>),
      Rep("\n", 1),
      Word("a", 1990),
      Lines("b", 999, 5),
      CodeBlock(Lit(<<"p", "y">>), Lit(<<"x">>)),
      CodeBlock(<<>>, Word("c", 1990)),
      CodeBlock(Lit(<<"p", "y">>),
                Cat3(Word("d", 900), Rep("\n", 1),
                     Cat3(Word("e", 1200), Rep("\n", 1), Word("f", 300)))),
      CodeBlock(<<>>, Word("g", 2100)),
      Lit(<<"#", "#", "#", "#", " ", "T">>),
      Lit(<<"-", " ", "x", "\n">>) }

RECURSIVE TextsOf(_)
TextsOf(n) ==
    IF n = 0 THEN {<<>>}
    ELSE LET shorter == TextsOf(n - 1) IN
         shorter \cup {Cat(t, seg) : t \in shorter, seg \in Segments}

Texts == TextsOf(MaxSegments)

(***************************************************************************)
(* utils/conversation.py: the conversation documents, one JSON file per    *)
(* key "<user_id>_<channel_id>".  A file is absent, holds a document, or   *)
(* is empty: open(path, "w") has truncated it and nothing has been written *)
(* since.                                                                  *)
(***************************************************************************)
\* Python's None where a text is expected; no string has a run of length 0
None == <<Run("None", 0)>>

\* @dataclass Message.  A timestamp is the reading of the clock it was taken
\* at: datetime.now().isoformat() gives texts that sort as the readings do.
Message(role, content, timestamp, metadata) ==
    [role |-> role, content |-> content, timestamp |-> timestamp, metadata |-> metadata]

\* @dataclass Conversation; `some` tells a Conversation from None
Conversation(messages, context, metadata, created_at, updated_at) ==
    [some |-> TRUE, messages |-> messages, context |-> context, metadata |-> metadata,
     created_at |-> created_at, updated_at |-> updated_at]

\* what "return None" gives where a Conversation is expected
NoConversation ==
    [some |-> FALSE, messages |-> <<>>, context |-> <<>>, metadata |-> <<>>,
     created_at |-> 0, updated_at |-> 0]

\* a text given as its parts: the system prompt of default_settings
DEFAULT_SYSTEM_PROMPT ==
    <<"You are a helpful AI assistant. Your responses should be clear and concise.">>

default_settings ==
    [max_history |-> 10, auto_summarize |-> FALSE, language |-> "en",
     temperature |-> "0.7", max_tokens |-> 1000, model |-> "gpt-4o-mini",
     system_prompt |-> DEFAULT_SYSTEM_PROMPT]

\* the Conversation add_message makes when get_conversation gave None
new_conversation(now) ==
    Conversation(<<>>, <<>>,
                 [settings |-> default_settings, topic |-> None, sentiment |-> None,
                  participants |-> {}],
                 now, now)

\* list(a_set) can give: the elements of the set, each once, in some order
Orders(S) ==
    {listed \in [1..Cardinality(S) -> S] : {listed[i] : i \in 1..Cardinality(S)} = S}

\* the order in which one process iterates over a set: one of them
SetOrder(S) == CHOOSE listed \in Orders(S) : TRUE

\* set(a_list)
SetOf(listed) == {listed[i] : i \in DOMAIN listed}

\* a file that does not exist, and a file that open(path, "w") has emptied
\* and nothing has been written to since
AbsentFile == [state |-> "absent", data |-> <<>>]

EmptyFile == [state |-> "empty", data |-> <<>>]

\* a file holding json.dumps(data); json.loads gives data back
DocumentFile(data) == [state |-> "doc", data |-> data]

\* _serialize_conversation when the message appended last is left out
_serialize_conversation_unsaved(conversation, listed) ==
    [messages |-> [i \in 1..(Len(conversation.messages) - 1) |->
                      [role |-> conversation.messages[i].role,
                       content |-> conversation.messages[i].content,
                       timestamp |-> conversation.messages[i].timestamp,
                       metadata |-> conversation.messages[i].metadata]],
     context |-> conversation.context,
     metadata |-> [f \in DOMAIN conversation.metadata \cup {"participants"} |->
                      IF f = "participants" THEN listed ELSE conversation.metadata[f]],
     created_at |-> conversation.created_at,
     updated_at |-> conversation.updated_at]

\* _serialize_conversation, listed being what list(participants) gives
_serialize_conversation(conversation, listed) ==
    [messages |-> [i \in 1..Len(conversation.messages) |->
                      [role |-> conversation.messages[i].role,
                       content |-> conversation.messages[i].content,
                       timestamp |-> conversation.messages[i].timestamp,
                       metadata |-> conversation.messages[i].metadata]],
     context |-> conversation.context,
     metadata |-> [f \in DOMAIN conversation.metadata \cup {"participants"} |->
                      IF f = "participants" THEN listed ELSE conversation.metadata[f]],
     created_at |-> conversation.created_at,
     updated_at |-> conversation.updated_at]

\* _deserialize_conversation with updated_at taken from created_at
_deserialize_conversation_created(data) ==
    Conversation([i \in 1..Len(data.messages) |->
                     Message(data.messages[i].role, data.messages[i].content,
                             data.messages[i].timestamp, data.messages[i].metadata)],
                 data.context,
                 [f \in DOMAIN data.metadata \cup {"participants"} |->
                     IF f = "participants"
                     THEN SetOf(IF "participants" \in DOMAIN data.metadata
                                THEN data.metadata.participants ELSE <<>>)
                     ELSE data.metadata[f]],
                 data.created_at,
                 data.created_at)

_deserialize_conversation(data) ==
    Conversation([i \in 1..Len(data.messages) |->
                     Message(data.messages[i].role, data.messages[i].content,
                             data.messages[i].timestamp, data.messages[i].metadata)],
                 data.context,
                 [f \in DOMAIN data.metadata \cup {"participants"} |->
                     IF f = "participants"
                     THEN SetOf(IF "participants" \in DOMAIN data.metadata
                                THEN data.metadata.participants ELSE <<>>)
                     ELSE data.metadata[f]],
                 data.created_at,
                 data.updated_at)

\* get_conversation when a read that fails is taken for a read that succeeds
get_conversation_unguarded(file, readable) ==
    IF file.state = "doc" THEN _deserialize_conversation(file.data)
    ELSE NoConversation

\* get_conversation: None when the file does not exist, and None when reading
\* or parsing it raises (readable = FALSE, or the file is empty)
get_conversation(file, readable) ==
    IF file.state = "absent" THEN NoConversation
    ELSE IF file.state = "doc" /\ readable THEN _deserialize_conversation(file.data)
    ELSE NoConversation

\* add_message called without a conversation, up to the save: the conversation
\* loaded, or a new one when get_conversation gave None, with the system
\* prompt set when one is given (<<>> when it is not), the message appended,
\* its role among the participants and updated_at read from the clock
add_message(file, readable, user_id, channel_id, content, role, system_prompt, now) ==
    LET message == Message(role, content, now,
                           [user_id |-> user_id, channel_id |-> channel_id,
                            message_type |-> "text"])
        loaded == get_conversation(file, readable)
        conversation == IF loaded.some THEN loaded ELSE new_conversation(now)
        settings == IF system_prompt # <<>>
                    THEN [conversation.metadata.settings EXCEPT
                              !.system_prompt = system_prompt]
                    ELSE conversation.metadata.settings
    IN Conversation(Append(conversation.messages, message),
                    conversation.context,
                    [conversation.metadata EXCEPT !.settings = settings,
                                                  !.participants = @ \cup {role}],
                    conversation.created_at,
                    now)

\* the literal _generate_ai_response returns when the provider call raises
APOLOGY ==
    Lit(<<"I", "'", "m", " ", "s", "o", "r", "r", "y", ",", " ", "I", " ",
          "e", "n", "c", "o", "u", "n", "t", "e", "r", "e", "d", " ", "a", "n", " ",
          "e", "r", "r", "o", "r", " ", "w", "h", "i", "l", "e", " ",
          "g", "e", "n", "e", "r", "a", "t", "i", "n", "g", " ", "a", " ",
          "r", "e", "s", "p", "o", "n", "s", "e", ".">>)

\* what the provider call gives: a text, None for a completion without
\* content, or an exception
ProviderNone == [kind |-> "none", text |-> None]

ProviderRaises == [kind |-> "raises", text |-> None]

ProviderText(text) == [kind |-> "text", text |-> text]

\* conversation.messages[-5:]
recent_messages(conversation) ==
    LET n == Len(conversation.messages)
    IN SubSeq(conversation.messages, IF n > 5 THEN n - 4 ELSE 1, n)

\* _generate_ai_response: the arguments of openai.ChatCompletion.create
completion_request(conversation) ==
    LET settings == IF "settings" \in DOMAIN conversation.metadata
                    THEN conversation.metadata.settings ELSE default_settings
        system_prompt == settings.system_prompt
        recent == recent_messages(conversation)
    IN [model |-> settings.model,
        messages |-> (IF system_prompt # <<>>
                      THEN <<[role |-> "system", content |-> system_prompt]>>
                      ELSE <<>>)
                     \o [i \in 1..Len(recent) |->
                            [role |-> recent[i].role, content |-> recent[i].content]],
        temperature |-> settings.temperature,
        max_tokens |-> settings.max_tokens]

\* _generate_ai_response: the content of the completion, the apology when the
\* call raises
_generate_ai_response(conversation, provided) ==
    IF provided.kind = "raises" THEN APOLOGY ELSE provided.text

\* generate_response with the conversation add_message returned, up to the
\* save: the user message is appended (again), then the assistant message
generate_response(conversation, message, provided, now) ==
    LET with_user ==
            [conversation EXCEPT
                !.messages = Append(@, Message("user", message, now, <<>>)),
                !.metadata.participants = @ \cup {"user"},
                !.updated_at = now]
        response_text == _generate_ai_response(with_user, provided)
    IN [request |-> completion_request(with_user),
        response_text |-> response_text,
        conversation |->
            [with_user EXCEPT
                !.messages = Append(@, Message("assistant", response_text, now, <<>>)),
                !.metadata.participants = @ \cup {"assistant"},
                !.updated_at = now]]

(***************************************************************************)
(* bot/commands/chat.py and bot/commands/user.py                           *)
(***************************************************************************)
\* the notices the handlers send themselves
COULD_NOT_STORE == "Could not store your message. Please try again."

FAILED_TO_GENERATE == "Failed to generate a response."

ERROR_WHILE_GENERATING == "Error while generating response: <exception>"

HISTORY_CLEARED == "Your conversation history has been cleared."

FAILED_TO_CLEAR == "Failed to clear your conversation."

\* the mention of the bot in a message, f"<@{self.bot.user.id}>"
MENTION == Lit(<<"<", "@", "7", ">">>)

QUESTION_HEAD ==
    Lit(<<"*", "*", "Q", "u", "e", "s", "t", "i", "o", "n", ":", "*", "*", " ">>)

ANSWER_HEAD ==
    Lit(<<"\n", "\n", BRAIN, " ", "*", "*", "A", "n", "s", "w", "e", "r", ":", "*", "*", "\n">>)

\* f"**Question:** {prompt}\n\n(brain) **Answer:**\n{response}"
formatted_response(prompt, response) ==
    Cat(Cat3(QUESTION_HEAD, prompt, ANSWER_HEAD), response)

\* "```" in response
contains_code(response) == Contains(response, FENCE)

\* the content on_message works with: the mention is removed and the rest
\* stripped when the bot is mentioned, the text as it is for a reply
message_content(content, is_mention) ==
    IF is_mention THEN Strip(Replace(content, MENTION, <<>>)) ELSE content

\* the character limits a response is asked to keep
DEFAULT_CHAR_LIMIT == 1800

EXTENDED_CHAR_LIMIT == DEFAULT_CHAR_LIMIT + 500

\* the phrases that ask for more detail
DETAIL_KEYWORDS ==
    { Lit(<<"m", "o", "r", "e", " ", "d", "e", "t", "a", "i", "l">>),
      Lit(<<"m", "o", "r", "e", " ", "i", "n", "f", "o", "r", "m", "a", "t", "i", "o", "n">>),
      Lit(<<"e", "x", "p", "l", "a", "i", "n", " ", "m", "o", "r", "e">>),
      Lit(<<"e", "l", "a", "b", "o", "r", "a", "t", "e">>),
      Lit(<<"l", "o", "n", "g", "e", "r", " ", "a", "n", "s", "w", "e", "r">>),
      Lit(<<"d", "e", "t", "a", "i", "l", "e", "d", " ", "a", "n", "s", "w", "e", "r">>),
      Lit(<<"i", "n", " ", "d", "e", "p", "t", "h">>),
      Lit(<<"t", "h", "o", "r", "o", "u", "g", "h">>) }

\* str.lower(), on the letters A to Z
LOWER ==
    [A |-> "a", B |-> "b", C |-> "c", D |-> "d", E |-> "e", F |-> "f", G |-> "g",
     H |-> "h", I |-> "i", J |-> "j", K |-> "k", L |-> "l", M |-> "m", N |-> "n",
     O |-> "o", P |-> "p", Q |-> "q", R |-> "r", S |-> "s", T |-> "t", U |-> "u",
     V |-> "v", W |-> "w", X |-> "x", Y |-> "y", Z |-> "z"]

RECURSIVE Lower(_)
Lower(s) ==
    IF s = <<>> THEN <<>>
    ELSE Cat(<<Run(IF s[1].c \in DOMAIN LOWER THEN LOWER[s[1].c] ELSE s[1].c, s[1].n)>>,
             Lower(Tail(s)))

\* _get_char_limit when the message is not put in small letters
_get_char_limit_cased(message) ==
    IF \E keyword \in DETAIL_KEYWORDS : Contains(message, keyword)
    THEN EXTENDED_CHAR_LIMIT
    ELSE DEFAULT_CHAR_LIMIT

_get_char_limit(message) ==
    IF \E keyword \in DETAIL_KEYWORDS : Contains(Lower(message), keyword)
    THEN EXTENDED_CHAR_LIMIT
    ELSE DEFAULT_CHAR_LIMIT

\* the system prompt of the handlers, as its parts: the literal text (BT
\* standing for the backquote) and the two limits written in decimal
_get_system_prompt(char_limit) ==
    << "You are a helpful AI assistant in a Discord chat. Your responses should be clear, concise, and well-structured, ",
       "using Discord's official markdown formatting:\n",
       "- Headers: Use # for main titles, ## for section headers, ### for subsection headers\n",
       "- **Bold**: Use **text** for emphasis and important points\n",
       "- *Italic*: Use *text* or _text_ for emphasis\n",
       "- __Underline__: Use __text__ for underlining\n",
       "- ~~Strikethrough~~: Use ~~text~~ for corrections or outdated information\n",
       "- ", BT, "Code", BT, ": Use ", BT, "text", BT,
       " for inline code, commands, or technical terms\n",
       "- ", BT, BT, BT, "Code blocks", BT, BT, BT, ": Use ", BT, BT, BT,
       " for multi-line code examples; add language name for syntax highlighting\n",
       "- Lists: Use hyphens (-) for bullet points; use 2 spaces before - for nested bullets\n",
       "- Numbered lists: Use 1., 2., etc. for steps or ordered points\n",
       "- > Blockquote: Use > for single-line quotes\n",
       "- >>> Multi-line quote: Use >>> for extended quotes\n",
       "- Masked links: Use [text](URL) format\n",
       "- Combine formatting: ***bold and italic***, __**underline and bold**__, etc.\n",
       "\n",
       "Remember:\n",
       "- Discord has a 2000 character limit per message\n",
       "- Your response must be under ", ToString(char_limit), " characters\n",
       "- If someone requests more detail, you can use up to ",
       ToString(EXTENDED_CHAR_LIMIT), " characters\n",
       "- Keep responses focused and well-organized\n",
       "- Use appropriate spacing and formatting for readability (e.g., space after # for headers)\n",
       "- Don't use more than 3 hashtags (####, #####) as they don't render properly in Discord" >>

\* conversation_id when the two identifiers are joined with nothing between
conversation_id_joined(user_id, channel_id) == user_id \o channel_id

\* conversation_id = f"{user_id}_{channel_id}"
conversation_id(user_id, channel_id) == user_id \o "_" \o channel_id

\* the user and the channel of a key f"{user_id}_{channel_id}"
user_id_of(k) == IF k = "u1_c1" THEN "u1" ELSE "u2"

channel_id_of(k) == "c1"

\* the sender checked on its own
VARIABLES full_text, call

\* the conversation files, the handlers in progress, and the record of what
\* has happened: requests started, input/output faults met, whether the
\* operations so far ran one after the other, the messages and the updated_at
\* last written for each key, the add_message calls made on each key, and the
\* reading of the clock
VARIABLES files, tasks, requests, faults, sequential, durable, appends, now

\* fix_discord_formatting checked on its own: a text, and what the function
\* gives when it is applied to it once, then again to what it gave
VARIABLES text, fixed

\* the serialization checked on its own: a Conversation, what
\* _serialize_conversation gives for it, and what _deserialize_conversation
\* gives for that
VARIABLES original, data, restored

\* _generate_ai_response checked on its own: a Conversation, and the request
\* made to the provider for it
VARIABLES history, submitted

\* shared/error_handler.py: the error_<day>.log files of the error-logs
\* directory (their sizes, 0 for a day without a file), the days whose file
\* has been compressed to error_<day>.log.gz, the day the clock shows, and
\* the log_error call in progress
VARIABLES error_logs, archives, today, logger

sendVars == <<full_text, call>>

pureVars == <<text, fixed, original, data, restored, history, submitted>>

chatVars == <<files, tasks, requests, faults, sequential, durable, appends, now>>

logVars == <<error_logs, archives, today, logger>>

vars ==
    <<full_text, call, files, tasks, requests, faults, sequential, durable, appends,
      now, text, fixed, original, data, restored, history, submitted,
      error_logs, archives, today, logger>>

Keys == {"u1_c1", "u2_c1"}

Tasks == {1, 2}

\* requests started in one behaviour, and input/output faults met in it
MaxRequests == 2

MaxFaults == 2

IdleCall ==
    [pc |-> "idle", target |-> "Interaction", wrap |-> FALSE,
     chunks |-> <<>>, i |-> 1, sent |-> <<>>]

IdleTask ==
    [pc |-> "idle", op |-> "", key |-> "", role |-> "", content |-> <<>>,
     conversation |-> NoConversation, saving |-> "", response_text |-> None,
     provided |-> "", add_result |-> "", pending |-> "", notices |-> <<>>,
     send |-> IdleCall, refused |-> FALSE, outcome |-> "", before |-> <<>>,
     request |-> <<>>, reset_at |-> 0]

\* what durable holds for a key without a document
NothingWritten == [messages |-> <<>>, updated_at |-> 0]

\* no pure function is being checked
PureIdle ==
    /\ text = <<>>
    /\ fixed = <<>>
    /\ original = NoConversation
    /\ data = <<>>
    /\ restored = NoConversation
    /\ history = NoConversation
    /\ submitted = <<>>

\* the days of a behaviour
MaxDay == 5

Days == 1..MaxDay

\* no log_error call is in progress
IdleLogger == [pc |-> "idle", log_file |-> 0, depth |-> 0, rotation_error |-> FALSE]

\* ErrorHandler.__init__: the error-logs directory is made, with nothing in it
LogIdle ==
    /\ error_logs = [d \in Days |-> 0]
    /\ archives = {}
    /\ today = 1
    /\ logger = IdleLogger

ChatInit ==
    /\ files = [k \in Keys |-> AbsentFile]
    /\ tasks = [t \in Tasks |-> IdleTask]
    /\ requests = 0
    /\ faults = 0
    /\ sequential = TRUE
    /\ durable = [k \in Keys |-> NothingWritten]
    /\ now = 0
    /\ appends = [k \in Keys |-> [pure |-> TRUE, calls |-> <<>>]]

\* The calls tried: every text to an Interaction, the texts of at most one
\* segment to the other kinds of target as well
SendInputs ==
    {<<"Interaction", t>> : t \in Texts}
        \cup {<<k, t>> : k \in TargetKinds, t \in TextsOf(1)}

SendInit ==
    /\ \E inp \in SendInputs, w \in BOOLEAN :
           /\ full_text = inp[2]
           /\ call = [pc |-> "start", target |-> inp[1], wrap |-> w,
                      chunks |-> <<>>, i |-> 1, sent |-> <<>>]
    /\ ChatInit
    /\ LogIdle
    /\ PureIdle

\* send_discord_safe up to the send loop
SendCall ==
    /\ call.pc = "start"
    /\ call' = send_call(call.target, full_text, call.wrap)
    /\ UNCHANGED <<full_text, chatVars, pureVars, logVars>>

\* one iteration of the send loop, the platform accepting the message
SendChunkOk ==
    /\ call.pc = "loop"
    /\ call' = send_chunk(call, TRUE)
    /\ UNCHANGED <<full_text, chatVars, pureVars, logVars>>

\* one iteration of the send loop, the platform refusing the message
SendChunkFail ==
    /\ call.pc = "loop"
    /\ call.i <= Len(call.chunks)
    /\ call.target # "Other"
    /\ call' = send_chunk(call, FALSE)
    /\ UNCHANGED <<full_text, chatVars, pureVars, logVars>>

SendNext == SendCall \/ SendChunkOk \/ SendChunkFail

SendSpec == SendInit /\ [][SendNext]_vars

(***************************************************************************)
(* fix_discord_formatting on its own: applied to a text, then to its own   *)
(* result.                                                                 *)
(***************************************************************************)
\* texts of at most MaxFixSegments pieces
MaxFixSegments == 4

\* pieces of text: the start of a header of four hashes, a hash, whitespace,
\* a word, and runs of markers at and above the lengths the rules look for
FixSegments ==
    { Cat(Rep("#", 4), Rep(" ", 1)),
      Rep("#", 1),
      Rep(" ", 1),
      Rep("\n", 1),
      Lit(<<"a", "b">>),
      Rep("*", 2),
      Rep("*", 4),
      Rep("_", 3),
      Rep("~", 3) }

RECURSIVE FixTextsOf(_)
FixTextsOf(n) ==
    IF n = 0 THEN {<<>>}
    ELSE LET shorter == FixTextsOf(n - 1) IN
         shorter \cup {Cat(t, seg) : t \in shorter, seg \in FixSegments}

FixTexts == FixTextsOf(MaxFixSegments)

FixInit ==
    /\ text \in FixTexts
    /\ fixed = <<>>
    /\ original = NoConversation
    /\ data = <<>>
    /\ restored = NoConversation
    /\ history = NoConversation
    /\ submitted = <<>>
    /\ ChatInit
    /\ LogIdle
    /\ full_text = <<>>
    /\ call = IdleCall

\* fix_discord_formatting is applied to the text, or to what it gave last
Fix ==
    /\ Len(fixed) < 2
    /\ fixed' = Append(fixed, fix_discord_formatting(IF fixed = <<>> THEN text
                                                     ELSE fixed[Len(fixed)]))
    /\ UNCHANGED <<text, original, data, restored, history, submitted, sendVars, chatVars, logVars>>

FixNext == Fix

FixSpec == FixInit /\ [][FixNext]_vars

(***************************************************************************)
(* The handlers as processes.  A task runs one operation at a time; a step *)
(* is the code between two awaits.  Every await on the platform or on the  *)
(* file system either succeeds or raises.                                  *)
(***************************************************************************)
Hi == Lit(<<"h", "i">>)

\* texts of commands: a question, whitespace only
Prompts == { Hi, Rep(" ", 2) }

\* message events: a reply to the bot, a message that neither replies nor
\* mentions, a reply written by a bot, a bare mention
Events ==
    { [content |-> Hi, author_bot |-> FALSE, is_reply |-> TRUE],
      [content |-> Hi, author_bot |-> FALSE, is_reply |-> FALSE],
      [content |-> Hi, author_bot |-> TRUE, is_reply |-> TRUE],
      [content |-> Cat(MENTION, Rep(" ", 1)), author_bot |-> FALSE, is_reply |-> FALSE] }

\* prompts that ask for more detail, in capitals and in small letters, and a
\* prompt that has the words of a phrase but not the phrase
BudgetPrompts ==
    { Lit(<<"E", "x", "p", "l", "a", "i", "n", " ", "M", "O", "R", "E">>),
      Lit(<<"b", "e", " ", "t", "h", "o", "r", "o", "u", "g", "h">>),
      Lit(<<"e", "x", "p", "l", "a", "i", "n", " ", "n", "o", " ", "m", "o", "r", "e">>) }

\* a message that asks for more detail behind a mention, and one that does not
BudgetEvents ==
    { [content |-> Cat(MENTION, Lit(<<" ", "I", "n", " ", "D", "e", "p", "t", "h">>)),
       author_bot |-> FALSE, is_reply |-> FALSE],
      [content |-> Cat(MENTION, Cat(Rep(" ", 1), Hi)),
       author_bot |-> FALSE, is_reply |-> FALSE] }

\* add_message calls made on their own
Appends ==
    { [role |-> "user", content |-> Hi],
      [role |-> "assistant", content |-> Lit(<<"o", "k">>)] }

\* what the provider may give
Provided ==
    { ProviderText(Lit(<<"o", "k">>)), ProviderNone, ProviderRaises }

Busy(t) == tasks[t].pc \notin {"idle", "done"}

StoredMessages(k) == IF files[k].state = "doc" THEN files[k].data.messages ELSE <<>>

\* a role and a content, and those of a list of messages
Turn(role, content) == [role |-> role, content |-> content]

Turns(messages) ==
    [i \in 1..Len(messages) |-> Turn(messages[i].role, messages[i].content)]

\* an operation begins on task t; what it does to the record of the run.
\* Tasks and keys are interchangeable: the first free task takes the
\* operation, and the first operation of a run is on the first key.
Begin(t, k, op) ==
    /\ tasks[t].pc = "idle"
    /\ \A u \in Tasks : u < t => tasks[u].pc # "idle"
    /\ requests = 0 => k = "u1_c1"
    /\ requests < MaxRequests
    /\ requests' = requests + 1
    /\ sequential' = (sequential /\ \A u \in Tasks : ~Busy(u))
    /\ appends' = IF op \in {"add_message", "get_conversation"} /\ sequential'
                  THEN appends
                  ELSE [appends EXCEPT ![k].pure = FALSE]

\* an input/output fault is met
Fault(ok) ==
    /\ ~ok => faults < MaxFaults
    /\ faults' = IF ok THEN faults ELSE faults + 1

Finish(task, outcome) == [task EXCEPT !.pc = "done", !.outcome = outcome]

\* /ask is invoked
StartAsk(t, k, prompt) ==
    /\ Begin(t, k, "ask")
    /\ tasks' = [tasks EXCEPT ![t] =
                    [IdleTask EXCEPT !.pc = "defer", !.op = "ask", !.key = k,
                                     !.role = "user", !.content = prompt,
                                     !.before = Turns(StoredMessages(k))]]
    /\ UNCHANGED <<files, faults, durable, full_text, call, now, pureVars, logVars>>

\* a message event arrives
StartOnMessage(t, k, content, author_bot, is_reply) ==
    LET is_mention == Contains(content, MENTION)
        entered == [IdleTask EXCEPT !.op = "on_message", !.key = k, !.role = "user",
                                    !.content = message_content(content, is_mention),
                                    !.before = Turns(StoredMessages(k))]
    IN /\ Begin(t, k, "on_message")
       /\ tasks' = [tasks EXCEPT ![t] =
                       IF author_bot \/ ~(is_reply \/ is_mention)
                       THEN Finish(entered, "Ignored")
                       ELSE [entered EXCEPT !.pc = "typing"]]
       /\ UNCHANGED <<files, faults, durable, full_text, call, now, pureVars, logVars>>

\* /wipeconvo is invoked
StartWipeconvo(t, k) ==
    /\ Begin(t, k, "wipeconvo")
    /\ tasks' = [tasks EXCEPT ![t] =
                    [IdleTask EXCEPT !.pc = "defer", !.op = "wipeconvo", !.key = k]]
    /\ UNCHANGED <<files, faults, durable, full_text, call, now, pureVars, logVars>>

\* add_message is called on its own
StartAddMessage(t, k, role, content) ==
    /\ Begin(t, k, "add_message")
    /\ tasks' = [tasks EXCEPT ![t] =
                    [IdleTask EXCEPT !.pc = "add_read", !.op = "add_message", !.key = k,
                                     !.role = role, !.content = content,
                                     !.before = Turns(StoredMessages(k))]]
    /\ UNCHANGED <<files, faults, durable, full_text, call, now, pureVars, logVars>>

\* get_conversation is called on its own
StartGetConversation(t, k) ==
    /\ Begin(t, k, "get_conversation")
    /\ tasks' = [tasks EXCEPT ![t] =
                    [IdleTask EXCEPT !.pc = "get_read", !.op = "get_conversation", !.key = k]]
    /\ UNCHANGED <<files, faults, durable, full_text, call, now, pureVars, logVars>>

\* get_conversation on its own: the read
GetRead(t, readable) ==
    /\ tasks[t].pc = "get_read"
    /\ ~readable => files[tasks[t].key].state = "doc"
    /\ Fault(readable)
    /\ tasks' = [tasks EXCEPT ![t] =
                    Finish([@ EXCEPT !.conversation =
                                get_conversation(files[tasks[t].key], readable)],
                           "Returned")]
    /\ UNCHANGED <<files, requests, sequential, durable, appends, full_text, call, now, pureVars, logVars>>

\* interaction.response.defer(thinking=True), outside the try of ask and wipeconvo
Defer(t, ok) ==
    /\ tasks[t].pc = "defer"
    /\ Fault(ok)
    /\ tasks' = [tasks EXCEPT ![t] =
                    IF ~ok THEN Finish([@ EXCEPT !.refused = TRUE], "Raised")
                    ELSE [@ EXCEPT !.pc = IF tasks[t].op = "ask" THEN "add_read" ELSE "reset"]]
    /\ UNCHANGED <<files, requests, sequential, durable, appends, full_text, call, now, pureVars, logVars>>

\* on_message: fetch_message for a reply and channel.typing(), inside the try
Typing(t, ok) ==
    /\ tasks[t].pc = "typing"
    /\ Fault(ok)
    /\ tasks' = [tasks EXCEPT ![t] = IF ok THEN [@ EXCEPT !.pc = "add_read"]
                                           ELSE [@ EXCEPT !.pc = "except", !.refused = TRUE]]
    /\ UNCHANGED <<files, requests, sequential, durable, appends, full_text, call, now, pureVars, logVars>>

\* add_message: get_conversation, the new Conversation when it gave None, the append
AddRead(t, readable) ==
    /\ tasks[t].pc = "add_read"
    /\ ~readable => files[tasks[t].key].state = "doc"
    /\ Fault(readable)
    /\ tasks' = [tasks EXCEPT ![t] =
                    [@ EXCEPT !.pc = "save_open", !.saving = "add",
                              !.conversation =
                                  add_message(files[tasks[t].key], readable,
                                              user_id_of(tasks[t].key),
                                              channel_id_of(tasks[t].key),
                                              tasks[t].content, tasks[t].role,
                                              IF tasks[t].op = "add_message" THEN <<>>
                                              ELSE _get_system_prompt(
                                                       _get_char_limit(tasks[t].content)),
                                              now)]]
    /\ UNCHANGED <<files, requests, sequential, durable, appends, full_text, call, now, pureVars, logVars>>

\* SaveFailed when a failed save of the user's turn is not noticed
SaveFailed_unnoticed(task) ==
    IF task.saving = "add"
    THEN [task EXCEPT !.add_result = "None", !.pc = "provider"]
    ELSE [task EXCEPT !.pc = "notice", !.pending = FAILED_TO_GENERATE]

\* SaveFailed when a failed save of the assistant's turn is not noticed
SaveFailed_answered(task) ==
    IF task.saving = "add"
    THEN IF task.op = "add_message"
         THEN Finish([task EXCEPT !.add_result = "None"], "Returned")
         ELSE [task EXCEPT !.add_result = "None", !.pc = "notice",
                           !.pending = COULD_NOT_STORE]
    ELSE IF task.response_text = None
         THEN [task EXCEPT !.pc = "notice", !.pending = FAILED_TO_GENERATE]
         ELSE [task EXCEPT !.pc = "send",
                           !.send = [IdleCall EXCEPT !.pc = "loop",
                                                     !.chunks = <<task.response_text>>]]

\* the handler once _save_conversation has raised: add_message returns None
\* and the handler sends the notice; generate_response returns None likewise
SaveFailed(task) ==
    IF task.saving = "add"
    THEN IF task.op = "add_message"
         THEN Finish([task EXCEPT !.add_result = "None"], "Returned")
         ELSE [task EXCEPT !.add_result = "None", !.pc = "notice",
                           !.pending = COULD_NOT_STORE]
    ELSE [task EXCEPT !.pc = "notice", !.pending = FAILED_TO_GENERATE]

\* send_discord_safe(target, formatted_response, wrap_in_markdown=contains_code),
\* up to its send loop, for a handler, a prompt and a response text
answer_call(op, prompt, response) ==
    send_call(IF op = "ask" THEN "Interaction" ELSE "Message",
              formatted_response(prompt, response), contains_code(response))

\* the prompts and the response texts the handlers can meet
Contents ==
    Prompts \cup BudgetPrompts
        \cup {message_content(e.content, Contains(e.content, MENTION)) :
                  e \in Events \cup BudgetEvents}

ResponseTexts == {_generate_ai_response(NoConversation, p) : p \in Provided} \ {None}

\* answer_call, worked out once for each of them
AnswerCalls ==
    [op \in {"ask", "on_message"}, prompt \in Contents, response \in ResponseTexts |->
        answer_call(op, prompt, response)]

\* the handler once _save_conversation has returned
SaveDone(task) ==
    IF task.saving = "add"
    THEN IF task.op = "add_message"
         THEN Finish([task EXCEPT !.add_result = "stored"], "Returned")
         ELSE [task EXCEPT !.add_result = "stored", !.pc = "provider"]
    ELSE IF task.response_text = None
         THEN [task EXCEPT !.pc = "notice", !.pending = FAILED_TO_GENERATE]
         ELSE [task EXCEPT !.pc = "send",
                           !.send = AnswerCalls[task.op, task.content, task.response_text]]

\* the record of add_message calls on k, when the call of task ends
Recorded(task, returned) ==
    IF task.op # "add_message" THEN appends
    ELSE IF returned
         THEN [appends EXCEPT ![task.key].calls = Append(@, Turn(task.role, task.content))]
         ELSE [appends EXCEPT ![task.key].pure = FALSE]

\* _save_conversation: open(file_path, "w"), which empties the file
SaveOpen(t, ok) ==
    /\ tasks[t].pc = "save_open"
    /\ Fault(ok)
    /\ files' = IF ok THEN [files EXCEPT ![tasks[t].key] = EmptyFile] ELSE files
    /\ tasks' = [tasks EXCEPT ![t] = IF ok THEN [@ EXCEPT !.pc = "save_write"]
                                           ELSE SaveFailed(@)]
    /\ appends' = IF ok THEN appends ELSE Recorded(tasks[t], FALSE)
    /\ UNCHANGED <<requests, sequential, durable, full_text, call, now, pureVars, logVars>>

\* _save_conversation: f.write(json.dumps(data))
SaveWrite(t, ok) ==
    /\ tasks[t].pc = "save_write"
    /\ Fault(ok)
    /\ files' = IF ok THEN [files EXCEPT ![tasks[t].key] =
                               DocumentFile(_serialize_conversation(
                                   tasks[t].conversation,
                                   SetOrder(tasks[t].conversation.metadata.participants)))]
                ELSE files
    /\ durable' = IF ok THEN [durable EXCEPT ![tasks[t].key] =
                                 [messages |-> tasks[t].conversation.messages,
                                  updated_at |-> tasks[t].conversation.updated_at]]
                  ELSE durable
    /\ tasks' = [tasks EXCEPT ![t] = IF ok THEN SaveDone(@) ELSE SaveFailed(@)]
    /\ appends' = Recorded(tasks[t], ok)
    /\ UNCHANGED <<requests, sequential, full_text, call, now, pureVars, logVars>>

\* generate_response up to its save: the provider call and the two appends
Provider(t, provided) ==
    /\ tasks[t].pc = "provider"
    /\ LET g == generate_response(tasks[t].conversation, tasks[t].content, provided, now) IN
       tasks' = [tasks EXCEPT ![t] =
                    [@ EXCEPT !.pc = "save_open", !.saving = "gen",
                              !.provided = provided.kind,
                              !.response_text = g.response_text,
                              !.request = g.request,
                              !.conversation = g.conversation]]
    /\ UNCHANGED <<files, requests, faults, sequential, durable, appends, full_text, call, now, pureVars, logVars>>

\* one iteration of the send loop of send_discord_safe, called by the handler
SendAnswer(t, ok) ==
    /\ tasks[t].pc = "send"
    /\ ~ok => tasks[t].send.i <= Len(tasks[t].send.chunks)
    /\ Fault(ok)
    /\ LET c == send_chunk(tasks[t].send, ok) IN
       tasks' = [tasks EXCEPT ![t] =
                    IF c.pc = "returned" THEN Finish([@ EXCEPT !.send = c], "Delivered")
                    ELSE IF c.pc = "raised"
                         THEN [@ EXCEPT !.send = c, !.pc = "except", !.refused = TRUE]
                    ELSE [@ EXCEPT !.send = c]]
    /\ UNCHANGED <<files, requests, sequential, durable, appends, full_text, call, now, pureVars, logVars>>

\* followup.send / message.reply of a notice, inside the try
Notice(t, ok) ==
    /\ tasks[t].pc = "notice"
    /\ Fault(ok)
    /\ tasks' = [tasks EXCEPT ![t] =
                    IF ~ok THEN [@ EXCEPT !.pc = "except", !.refused = TRUE]
                    ELSE Finish([@ EXCEPT !.notices = Append(@, tasks[t].pending)],
                                IF @.op = "wipeconvo" THEN "Cleared" ELSE "Failed")]
    /\ UNCHANGED <<files, requests, sequential, durable, appends, full_text, call, now, pureVars, logVars>>

\* the except clause of the handler: the error is logged and a message sent
Except(t, ok) ==
    /\ tasks[t].pc = "except"
    /\ Fault(ok)
    /\ tasks' = [tasks EXCEPT ![t] =
                    IF ~ok THEN Finish(@, "Raised")
                    ELSE Finish([@ EXCEPT !.notices =
                                     Append(@, IF tasks[t].op = "wipeconvo"
                                               THEN FAILED_TO_CLEAR
                                               ELSE ERROR_WHILE_GENERATING)],
                                "Failed")]
    /\ UNCHANGED <<files, requests, sequential, durable, appends, full_text, call, now, pureVars, logVars>>

\* reset_conversation: the file is removed when it exists; an error of
\* os.remove is logged and goes no further
Reset(t, ok) ==
    /\ tasks[t].pc = "reset"
    /\ ~ok => files[tasks[t].key].state # "absent"
    /\ Fault(ok)
    /\ files' = IF ok THEN [files EXCEPT ![tasks[t].key] = AbsentFile] ELSE files
    /\ durable' = [durable EXCEPT ![tasks[t].key] = NothingWritten]
    /\ tasks' = [tasks EXCEPT ![t] = [@ EXCEPT !.pc = "notice", !.pending = HISTORY_CLEARED,
                                              !.reset_at = now]]
    /\ UNCHANGED <<requests, sequential, appends, full_text, call, now, pureVars, logVars>>

\* the operation is over and the task takes the next one
Return(t) ==
    /\ tasks[t].pc = "done"
    /\ tasks' = [tasks EXCEPT ![t] = IdleTask]
    /\ UNCHANGED <<files, requests, faults, sequential, durable, appends, full_text, call, now, pureVars, logVars>>

Init ==
    /\ ChatInit
    /\ LogIdle
    /\ full_text = <<>>
    /\ call = IdleCall
    /\ PureIdle

Next ==
    \E t \in Tasks :
        \/ \E k \in Keys, prompt \in Prompts : StartAsk(t, k, prompt)
        \/ \E k \in Keys, e \in Events :
               StartOnMessage(t, k, e.content, e.author_bot, e.is_reply)
        \/ \E k \in Keys : StartWipeconvo(t, k)
        \/ \E k \in Keys, m \in Appends : StartAddMessage(t, k, m.role, m.content)
        \/ \E k \in Keys : StartGetConversation(t, k)
        \/ \E ok \in BOOLEAN :
               \/ GetRead(t, ok)
               \/ Defer(t, ok)
               \/ Typing(t, ok)
               \/ AddRead(t, ok)
               \/ SaveOpen(t, ok)
               \/ SaveWrite(t, ok)
               \/ SendAnswer(t, ok)
               \/ Notice(t, ok)
               \/ Except(t, ok)
               \/ Reset(t, ok)
        \/ \E provided \in Provided : Provider(t, provided)
        \/ Return(t)

Spec == Init /\ [][Next]_vars

(***************************************************************************)
(* The store under a clock that moves                                      *)
(***************************************************************************)
\* the last reading of the clock
MaxClock == 1

\* time passes: datetime.now() never goes back
Tick ==
    /\ now < MaxClock
    /\ now' = now + 1
    /\ UNCHANGED <<files, tasks, requests, faults, sequential, durable, appends,
                   full_text, call, pureVars, logVars>>

\* /ask and add_message when no input or output fails, as time passes
TimedNext ==
    \/ Tick
    \/ \E t \in Tasks :
           \/ \E k \in Keys, prompt \in Prompts : StartAsk(t, k, prompt)
           \/ \E k \in Keys, m \in Appends : StartAddMessage(t, k, m.role, m.content)
           \/ Defer(t, TRUE)
           \/ AddRead(t, TRUE)
           \/ SaveOpen(t, TRUE)
           \/ SaveWrite(t, TRUE)
           \/ \E provided \in Provided : Provider(t, provided)
           \/ SendAnswer(t, TRUE)
           \/ Notice(t, TRUE)
           \/ Return(t)

TimedSpec == Init /\ [][TimedNext]_vars

(***************************************************************************)
(* /ask and /wipeconvo under a clock that moves                            *)
(***************************************************************************)
\* /ask and /wipeconvo when no input or output fails, as time passes
ResetNext ==
    \/ Tick
    \/ \E t \in Tasks :
           \/ \E k \in Keys : StartAsk(t, k, Hi)
           \/ \E k \in Keys : StartWipeconvo(t, k)
           \/ Defer(t, TRUE)
           \/ AddRead(t, TRUE)
           \/ SaveOpen(t, TRUE)
           \/ SaveWrite(t, TRUE)
           \/ \E provided \in Provided : Provider(t, provided)
           \/ SendAnswer(t, TRUE)
           \/ Notice(t, TRUE)
           \/ Reset(t, TRUE)
           \/ Return(t)

ResetSpec == Init /\ [][ResetNext]_vars

(***************************************************************************)
(* The handlers on texts that ask, or do not ask, for more detail          *)
(***************************************************************************)
\* /ask and on_message when no input or output fails
BudgetNext ==
    \E t \in Tasks :
        \/ \E k \in Keys, prompt \in BudgetPrompts : StartAsk(t, k, prompt)
        \/ \E k \in Keys, e \in BudgetEvents :
               StartOnMessage(t, k, e.content, e.author_bot, e.is_reply)
        \/ Defer(t, TRUE)
        \/ Typing(t, TRUE)
        \/ AddRead(t, TRUE)
        \/ SaveOpen(t, TRUE)
        \/ SaveWrite(t, TRUE)
        \/ \E provided \in Provided : Provider(t, provided)
        \/ SendAnswer(t, TRUE)
        \/ Notice(t, TRUE)
        \/ Return(t)

BudgetSpec == Init /\ [][BudgetNext]_vars

(***************************************************************************)
(* _serialize_conversation and _deserialize_conversation on their own      *)
(***************************************************************************)
\* the most messages of a Conversation that is serialized
MaxRoundTripMessages == 2

\* messages as add_message and generate_response make them
RoundTripMessages ==
    { Message(role, Hi, timestamp, metadata) :
          role \in {"user", "assistant"},
          timestamp \in 0..1,
          metadata \in { <<>>,
                         [user_id |-> user_id_of("u1_c1"),
                          channel_id |-> channel_id_of("u1_c1"),
                          message_type |-> "text"] } }

\* Conversations as add_message and generate_response make them: the settings
\* of default_settings, with the system prompt of the handlers or without,
\* and any roles among the participants
Conversations ==
    { Conversation(messages, <<>>,
                   [settings |-> settings, topic |-> None, sentiment |-> None,
                    participants |-> participants],
                   created_at, updated_at) :
          messages \in UNION {[1..n -> RoundTripMessages] : n \in 0..MaxRoundTripMessages},
          settings \in { default_settings,
                         [default_settings EXCEPT
                              !.system_prompt = _get_system_prompt(DEFAULT_CHAR_LIMIT)] },
          participants \in SUBSET {"user", "assistant", "system"},
          created_at \in 0..1,
          updated_at \in 0..1 }

RoundTripInit ==
    /\ original \in {c \in Conversations : c.created_at <= c.updated_at}
    /\ data = <<>>
    /\ restored = NoConversation
    /\ text = <<>>
    /\ fixed = <<>>
    /\ history = NoConversation
    /\ submitted = <<>>
    /\ ChatInit
    /\ LogIdle
    /\ full_text = <<>>
    /\ call = IdleCall

\* _serialize_conversation(original), list(participants) giving any order
Serialize ==
    /\ data = <<>>
    /\ \E listed \in Orders(original.metadata.participants) :
           data' = _serialize_conversation(original, listed)
    /\ UNCHANGED <<original, restored, text, fixed, history, submitted, sendVars, chatVars, logVars>>

\* _deserialize_conversation of what _serialize_conversation gave
Deserialize ==
    /\ data # <<>>
    /\ ~restored.some
    /\ restored' = _deserialize_conversation(data)
    /\ UNCHANGED <<original, data, text, fixed, history, submitted, sendVars, chatVars, logVars>>

RoundTripNext == Serialize \/ Deserialize

RoundTripSpec == RoundTripInit /\ [][RoundTripNext]_vars

(***************************************************************************)
(* The request _generate_ai_response makes, on its own                     *)
(***************************************************************************)
\* the most messages of a stored conversation
MaxStored == 6

\* conversations of 0 to MaxStored messages, the i-th of i characters
Histories ==
    UNION { { Conversation([i \in 1..n |-> Message(roles[i], Rep("m", i), i, <<>>)],
                           <<>>,
                           [settings |-> settings, topic |-> None, sentiment |-> None,
                            participants |-> {roles[i] : i \in 1..n}],
                           0, n) :
                  roles \in [1..n -> {"user", "assistant"}],
                  settings \in { default_settings,
                                 [default_settings EXCEPT
                                      !.system_prompt =
                                          _get_system_prompt(DEFAULT_CHAR_LIMIT)] } } :
            n \in 0..MaxStored }

HistoryInit ==
    /\ history \in Histories
    /\ submitted = <<>>
    /\ text = <<>>
    /\ fixed = <<>>
    /\ original = NoConversation
    /\ data = <<>>
    /\ restored = NoConversation
    /\ ChatInit
    /\ LogIdle
    /\ full_text = <<>>
    /\ call = IdleCall

\* _generate_ai_response(history) calls the provider
Request ==
    /\ submitted = <<>>
    /\ submitted' = completion_request(history)
    /\ UNCHANGED <<history, text, fixed, original, data, restored, sendVars, chatVars, logVars>>

HistoryNext == Request

HistorySpec == HistoryInit /\ [][HistoryNext]_vars

(***************************************************************************)
(* Properties of send_discord_safe                                         *)
(***************************************************************************)
Delivered == call.pc = "returned" /\ call.target = "Interaction"

\* the text of all the messages sent, one after the other
RECURSIVE CatAll(_, _)
CatAll(msgs, i) == IF i > Len(msgs) THEN <<>> ELSE Cat(msgs[i], CatAll(msgs, i + 1))

\* the number of characters of s that are not whitespace
Content(s) == StrLen(SelectSeq(s, LAMBDA r : ~IsSpace(r.c)))

EndsWith(s, suffix) ==
    StrLen(s) >= StrLen(suffix) /\ Drop(s, StrLen(s) - StrLen(suffix)) = suffix

StartsWith(s, prefix) == Take(s, StrLen(prefix)) = prefix

\* C3: every message handed to the sink is non-blank once trimmed and at most
\* 2000 characters long, with or without the markdown wrap; a text that is
\* empty or only whitespace makes send_discord_safe return without a send.
SentMessagesFit ==
    /\ \A k \in 1..Len(call.sent) :
           /\ Strip(call.sent[k]) # <<>>
           /\ StrLen(call.sent[k]) <= DISCORD_LIMIT
    /\ (Strip(full_text) = <<>> /\ call.pc # "start")
           => (call.pc = "returned" /\ call.sent = <<>>)

\* a call that sent two messages, one of them cut to exactly the limit
SentTruncatedMessage ==
    /\ Len(call.sent) >= 2
    /\ \E k \in 1..Len(call.sent) :
           StrLen(call.sent[k]) = DISCORD_LIMIT /\ EndsWith(call.sent[k], ELLIPSIS)

\* C4: a text without code blocks that is longer than the budget (the limit
\* of 2000 is the only budget send_discord_safe has), sent without the
\* markdown wrap, goes out as several messages, each within the budget, and
\* no content is lost: the messages hold as many non-whitespace characters as
\* the repaired text.
PlainTextSplitWithoutLoss ==
    (/\ Delivered
     /\ ~call.wrap
     /\ code_block_ranges(full_text) = <<>>
     /\ StrLen(Strip(full_text)) > DISCORD_LIMIT)
        => /\ Len(call.sent) >= 2
           /\ \A k \in 1..Len(call.sent) : StrLen(call.sent[k]) <= DISCORD_LIMIT
           /\ Content(CatAll(call.sent, 1)) = Content(fixed_text_of(full_text))

\* C5: once every message of a call is delivered, each code block of the text
\* that is at most 2000 characters long stands complete in one of the
\* messages, with or without the markdown wrap.
FittingCodeBlockSentWhole ==
    Delivered =>
        LET blocks == code_block_ranges(full_text) IN
        \A b \in 1..Len(blocks) :
            LET code_block == Slice(full_text, blocks[b].start, blocks[b].end) IN
            StrLen(code_block) <= DISCORD_LIMIT
                => \E k \in 1..Len(call.sent) : Contains(call.sent[k], code_block)

\* C6: once every message of a call is delivered, each sub-block of a code
\* block longer than 2000 characters opens with the fence and the language
\* tag, closes with the fence, is at most 2000 characters long and is one of
\* the messages sent.
LongCodeBlockSentAsSubBlocks ==
    Delivered =>
        LET fixed_text == fixed_text_of(full_text)
            ranges == code_block_ranges(fixed_text)
        IN \A b \in 1..Len(ranges) :
               LET code_block == Slice(fixed_text, ranges[b].start, ranges[b].end)
                   subs == split_code_block(code_block, ranges[b].language)
               IN StrLen(code_block) > DISCORD_LIMIT
                      => \A j \in 1..Len(subs) :
                             /\ StartsWith(subs[j], Cat3(FENCE, ranges[b].language, Rep("\n", 1)))
                             /\ EndsWith(subs[j], FENCE)
                             /\ StrLen(subs[j]) <= DISCORD_LIMIT
                             /\ \E k \in 1..Len(call.sent) : call.sent[k] = subs[j]

(***************************************************************************)
(* Properties of the conversation store and of the handlers               *)
(***************************************************************************)
IsPrefix(a, b) == Len(a) <= Len(b) /\ SubSeq(b, 1, Len(a)) = a

IsRequest(t) == tasks[t].op \in {"ask", "on_message"} /\ tasks[t].outcome # "Ignored"

\* C1: while the operations run one after the other, each write of a
\* document keeps the message list last written for the key as a prefix of
\* the new one, a failed read included, until the key is reset.
StoredMessagesKept ==
    [][sequential' =>
          \A k \in Keys :
              (files'[k].state = "doc" /\ files'[k] # files[k])
                  => IsPrefix(durable[k].messages, files'[k].data.messages)]_vars

\* C2: when nothing but add_message calls, one after the other and each
\* returning a conversation, has touched a key since its document was absent,
\* the stored messages are those of the calls, in the order of the calls.
AppendsStoredInOrder ==
    \A k \in Keys :
        (appends[k].pure /\ \A t \in Tasks : ~Busy(t))
            => Turns(StoredMessages(k)) = appends[k].calls

\* C7: a request run alone, without input/output faults, whose provider call
\* raised or gave no text ends Failed, with the failure notice as the only
\* reply, and leaves the history followed by the user's turn in the store.
ProviderFailureKeepsUserTurnOnly ==
    \A t \in Tasks :
        (/\ IsRequest(t)
         /\ tasks[t].pc = "done"
         /\ tasks[t].provided \in {"none", "raises"}
         /\ sequential
         /\ faults = 0)
            => /\ tasks[t].outcome = "Failed"
               /\ tasks[t].notices = <<FAILED_TO_GENERATE>>
               /\ tasks[t].send = IdleCall
               /\ Turns(StoredMessages(tasks[t].key))
                      = Append(tasks[t].before, Turn("user", tasks[t].content))

\* C8: a request whose prompt is empty or whitespace never appends to a
\* conversation and never calls the provider, and when it runs alone and no
\* call to the platform raises it ends Failed with the store as it was.
BlankPromptRejected ==
    \A t \in Tasks :
        (IsRequest(t) /\ Strip(tasks[t].content) = <<>>)
            => /\ tasks[t].conversation = NoConversation
               /\ tasks[t].provided = ""
               /\ (tasks[t].pc = "done" /\ sequential /\ ~tasks[t].refused)
                      => /\ tasks[t].outcome = "Failed"
                         /\ Turns(StoredMessages(tasks[t].key)) = tasks[t].before

\* C9: the provider is called only by a request whose add_message returned
\* the conversation, its save done; a request whose add_message returned None
\* calls neither the provider nor send_discord_safe, its next reply is the
\* could-not-store notice, and it ends Failed with that notice as its only
\* reply unless the platform refuses the notice.
ProviderOnlyAfterUserTurnStored ==
    \A t \in Tasks :
        IsRequest(t) =>
            /\ (tasks[t].pc = "provider" \/ tasks[t].provided # "")
                   => tasks[t].add_result = "stored"
            /\ tasks[t].add_result = "None"
                   => /\ tasks[t].provided = ""
                      /\ tasks[t].send = IdleCall
                      /\ tasks[t].pc \in {"notice", "except", "done"}
                      /\ tasks[t].pc = "notice"
                             => tasks[t].pending = COULD_NOT_STORE /\ tasks[t].notices = <<>>
                      /\ (tasks[t].pc = "done" /\ ~tasks[t].refused)
                             => /\ tasks[t].outcome = "Failed"
                                /\ tasks[t].notices = <<COULD_NOT_STORE>>

\* a request told that its message could not be stored, and a request that
\* reached the provider
StoreFailureNoticed ==
    /\ \E t \in Tasks :
           /\ IsRequest(t)
           /\ tasks[t].pc = "done"
           /\ tasks[t].add_result = "None"
           /\ tasks[t].notices = <<COULD_NOT_STORE>>
    /\ \E t \in Tasks : IsRequest(t) /\ tasks[t].provided # ""

\* C10: whatever the store, the provider and the platform do, no exception
\* leaves Chat.ask or Chat.on_message.
NoExceptionLeavesHandler ==
    \A t \in Tasks : IsRequest(t) => tasks[t].outcome # "Raised"

\* C11: an add_message whose save fails returns None to its caller without
\* raising, and, the operations running one after the other, the messages
\* stored for the key are then those stored before the call: the failed write
\* leaves nothing truncated or partly written behind.
FailedWriteLeavesDocument ==
    [][\A t \in Tasks :
          (tasks[t].add_result = "" /\ tasks'[t].add_result = "None" /\ sequential)
              => /\ tasks[t].op = "add_message"
                     => (tasks'[t].pc = "done" /\ tasks'[t].outcome = "Returned")
                 /\ Turns(StoredMessages(tasks[t].key))' = tasks[t].before]_vars

\* C12: get_conversation never raises: it returns, with None when the key has
\* no file and when reading or parsing the file fails, and it leaves every
\* stored document as it is.
GetConversationReturnsNone ==
    [][\A t \in Tasks :
          (tasks[t].pc = "get_read" /\ tasks'[t].pc # "get_read")
              => /\ tasks'[t].pc = "done" /\ tasks'[t].outcome = "Returned"
                 /\ (\/ files[tasks[t].key].state # "doc"
                     \/ faults' # faults)
                        => tasks'[t].conversation = NoConversation
                 /\ files' = files]_vars

\* a get_conversation that gave None for a key whose document could not be
\* read, the document still stored
ReadFailureGaveNone ==
    \E t \in Tasks :
        /\ tasks[t].op = "get_conversation" /\ tasks[t].pc = "done"
        /\ tasks[t].conversation = NoConversation
        /\ files[tasks[t].key].state = "doc"
        /\ sequential /\ faults = 1

\* C13: reset_conversation never raises and is idempotent: it completes, on a
\* key without a file it changes nothing, and once it has completed with no
\* other operation in flight get_conversation gives None for the key (so that
\* a second reset finds nothing to change).
ResetLeavesNoConversation ==
    [][\A t \in Tasks :
          (tasks[t].pc = "reset" /\ tasks'[t].pc # "reset")
              => /\ tasks'[t].pc = "notice" /\ tasks'[t].pending = HISTORY_CLEARED
                 /\ files[tasks[t].key].state = "absent" => files' = files
                 /\ sequential
                        => \A readable \in BOOLEAN :
                               get_conversation(files'[tasks[t].key], readable)
                                   = NoConversation]_vars

\* C20: in wrap mode the chunks leave room for the fence that is added: a
\* chunk that fits in 2000 characters still fits once it is wrapped, so the
\* wrapper never makes the send loop cut a message.
WrappedChunksFit ==
    (call.pc # "start" /\ call.wrap)
        => \A k \in 1..Len(call.chunks) :
               LET chunk == Strip(call.chunks[k]) IN
               (~StartsWithFence(chunk) /\ StrLen(chunk) <= DISCORD_LIMIT)
                   => /\ StrLen(wrapped(chunk)) <= DISCORD_LIMIT
                      /\ message_of(chunk, TRUE) = wrapped(chunk)

\* the lines between the opening fence, with its language tag and newline,
\* and the closing fence of a code block
CodeLines(code_block, language) ==
    SplitLines(Slice(code_block, 3 + StrLen(language) + 1, StrLen(code_block) - 3), 1)

\* C17: the code blocks of the text come out of the formatting repair
\* character for character, and once every message of the call is delivered
\* their content has been sent as it was: each line of each code block stands
\* in one of the messages, for the blocks cut into sub-blocks as well.
CodeBlocksUnchanged ==
    call.pc # "start" =>
        LET blocks == code_block_ranges(full_text)
            fixed_text == fixed_text_of(full_text)
            ranges == code_block_ranges(fixed_text)
        IN /\ Len(ranges) = Len(blocks)
           /\ \A b \in 1..Len(blocks) :
                  LET code_block == Slice(full_text, blocks[b].start, blocks[b].end)
                      lines == CodeLines(code_block, blocks[b].language)
                  IN /\ Slice(fixed_text, ranges[b].start, ranges[b].end) = code_block
                     /\ Delivered
                            => \A l \in 1..Len(lines) :
                                   \E k \in 1..Len(call.sent) :
                                       Contains(call.sent[k], lines[l])

(***************************************************************************)
(* Properties of fix_discord_formatting                                    *)
(***************************************************************************)
\* the text has a run of n or more of the character ch
HasRun(s, ch, n) == \E i \in 1..Len(s) : s[i].c = ch /\ s[i].n >= n

\* C18: fix_discord_formatting is idempotent: applied to its own result it
\* gives that result again.
FixIsIdempotent ==
    Len(fixed) = 2 => fixed[2] = fixed[1]

\* a text with a header of four hashes whose title is in bold, repaired into
\* something else and then repaired again
FixedHeaderAndMarkers ==
    /\ Len(fixed) = 2
    /\ fixed[1] # text
    /\ StartsWith(text, Cat3(Rep("#", 4), Rep(" ", 1), Rep("*", 2)))
    /\ EndsWith(text, Rep("*", 2))

\* C19: what fix_discord_formatting gives has no run of four or more
\* asterisks, of three or more underscores or of three or more tildes, whether
\* the run of the text had a matching closing run or not.
FixLeavesNoLongRun ==
    \A k \in 1..Len(fixed) :
        /\ ~HasRun(fixed[k], "*", 4)
        /\ ~HasRun(fixed[k], "_", 3)
        /\ ~HasRun(fixed[k], "~", 3)

\* C14: deserializing what _serialize_conversation gave for a Conversation
\* gives that Conversation back, field for field: the messages in their order,
\* the context, the settings and the rest of the metadata, created_at and
\* updated_at, and the participants as a set, in whatever order they were
\* listed.
RoundTripGivesOriginal == restored.some => restored = original

RoundTripReordered ==
    /\ restored.some
    /\ Len(original.messages) = 2
    /\ original.created_at # original.updated_at
    /\ Cardinality(original.metadata.participants) >= 2
    /\ data.metadata.participants # SetOrder(original.metadata.participants)

\* C15: with a clock that never goes back, each write of the document of a
\* key stores an updated_at that is not below the updated_at of the document
\* written before it, however the requests on the key interleave.
UpdatedAtNeverDecreases ==
    [][\A t \in Tasks :
          (tasks[t].pc = "save_write" /\ tasks'[t].pc # "save_write"
               /\ files'[tasks[t].key].state = "doc")
              => files'[tasks[t].key].data.updated_at
                     >= durable[tasks[t].key].updated_at]_vars

\* C16: the messages submitted to the provider are the system prompt of the
\* conversation as a system entry, then the last max_history stored messages
\* in their order (all of them when there are fewer), max_history being the
\* setting of the conversation.
SubmittedLastMaxHistory ==
    submitted # <<>>
        => LET settings == history.metadata.settings
               n == Len(history.messages)
           IN submitted.messages
                  = <<[role |-> "system", content |-> settings.system_prompt]>>
                    \o Turns(SubSeq(history.messages,
                                    IF n > settings.max_history
                                    THEN n - settings.max_history + 1 ELSE 1, n))

\* the system prompt of a text: that of the extended limit when the text in
\* small letters holds one of the phrases, that of the default limit when not
BudgetPromptOf(content) ==
    _get_system_prompt(IF \E keyword \in DETAIL_KEYWORDS : Contains(Lower(content), keyword)
                       THEN EXTENDED_CHAR_LIMIT ELSE DEFAULT_CHAR_LIMIT)

\* C21: a request of a handler uses the extended limit exactly when its text in
\* small letters holds one of the phrases; the system prompt of that limit is
\* in the settings of the document add_message writes, and it is the system
\* entry of the request the provider gets for that request.
BudgetPromptStoredAndSent ==
    [][\A t \in Tasks :
          tasks[t].op \in {"ask", "on_message"}
              => /\ (tasks[t].pc = "save_write" /\ tasks[t].saving = "add"
                         /\ tasks'[t].add_result = "stored")
                     => /\ files'[tasks[t].key].state = "doc"
                        /\ files'[tasks[t].key].data.metadata.settings.system_prompt
                               = BudgetPromptOf(tasks[t].content)
                 /\ (tasks[t].pc = "provider" /\ tasks'[t].pc # "provider")
                     => tasks'[t].request.messages[1]
                            = [role |-> "system",
                               content |-> BudgetPromptOf(tasks[t].content)]]_vars

DetailDelivered ==
    \E t \in Tasks :
        /\ tasks[t].op = "ask" /\ tasks[t].outcome = "Delivered"
        /\ tasks[t].content = Lit(<<"E", "x", "p", "l", "a", "i", "n", " ", "M", "O", "R", "E">>)
        /\ tasks[t].request.messages[1].content = _get_system_prompt(EXTENDED_CHAR_LIMIT)
        /\ files[tasks[t].key].state = "doc"
        /\ files[tasks[t].key].data.metadata.settings.system_prompt
               = _get_system_prompt(EXTENDED_CHAR_LIMIT)
        /\ _get_system_prompt(EXTENDED_CHAR_LIMIT) # _get_system_prompt(DEFAULT_CHAR_LIMIT)

IdTexts == {"1", "2", "11", "12", "21", "22", "111", "112"}

DistinctPairsDistinctKeys ==
    \A user_id \in IdTexts, channel_id \in IdTexts, other_user \in IdTexts,
       other_channel \in IdTexts :
        <<user_id, channel_id>> # <<other_user, other_channel>>
            => conversation_id(user_id, channel_id) # conversation_id(other_user, other_channel)

KeysOfPairs == \A k \in Keys : conversation_id(user_id_of(k), channel_id_of(k)) = k

\* C23: two distinct pairs of a user id and a channel id have distinct keys,
\* and a step of an operation on one key leaves the document of every other
\* key as it was, however the operations interleave.
OtherKeysUntouched ==
    [][/\ DistinctPairsDistinctKeys
       /\ KeysOfPairs
       /\ \A t \in Tasks :
              tasks'[t] # tasks[t]
                  => \A k \in Keys \ {tasks[t].key} : files'[k] = files[k]]_vars

WritingBesideOtherDocument ==
    \E t \in Tasks :
        /\ tasks[t].key = "u2_c1"
        /\ tasks[t].pc = "save_write"
        /\ files["u2_c1"].state = "empty"
        /\ files["u1_c1"].state = "doc"
        /\ ~sequential

\* two add_message calls on one key that have both returned a Conversation
BothStored(t, u) ==
    /\ t # u
    /\ tasks[t].op = "add_message" /\ tasks[u].op = "add_message"
    /\ tasks[t].key = tasks[u].key
    /\ tasks[t].pc = "done" /\ tasks[u].pc = "done"
    /\ tasks[t].add_result = "stored" /\ tasks[u].add_result = "stored"

\* C25: nothing orders two add_message calls on one key: each save puts the
\* messages of its own call in the place of what was stored, so that once both
\* calls have returned a Conversation the stored document is the one a single
\* call wrote, that of the save that ended last, and holds no message that
\* this call did not read or append.
LastSaveWins ==
    [][/\ \A t \in Tasks :
              (tasks[t].pc = "save_write" /\ tasks'[t].pc # "save_write" /\ faults' = faults)
                  => /\ files'[tasks[t].key].state = "doc"
                     /\ files'[tasks[t].key].data.messages = tasks[t].conversation.messages
       /\ \A t \in Tasks, u \in Tasks :
              BothStored(t, u)'
                  => /\ files'[tasks'[t].key].state = "doc"
                     /\ files'[tasks'[t].key].data.messages
                            \in {tasks'[t].conversation.messages,
                                 tasks'[u].conversation.messages}]_vars

LostUpdate ==
    \E t \in Tasks, u \in Tasks :
        /\ BothStored(t, u)
        /\ faults = 0
        /\ tasks[t].before = <<>> /\ tasks[u].before = <<>>
        /\ tasks[t].content # tasks[u].content
        /\ Turns(StoredMessages(tasks[t].key)) = <<Turn(tasks[u].role, tasks[u].content)>>
        /\ Len(appends[tasks[t].key].calls) = 2

\* C26: a request that ends Delivered, having run with no other operation
\* under way, leaves in the store the messages that were there when it began,
\* then its user turn, then its assistant turn: on a fresh key, the two.
DeliveredAddsOneTurnEach ==
    [][\A t \in Tasks :
          (tasks[t].outcome # "Delivered" /\ tasks'[t].outcome = "Delivered" /\ sequential
               /\ faults = 0)
              => Turns(StoredMessages(tasks[t].key))
                     = tasks[t].before \o <<Turn("user", tasks[t].content),
                                            Turn("assistant", tasks[t].response_text)>>]_vars

\* C27: once reset_conversation has ended for a key, the document stored for
\* the key holds no message that was appended before the reset, whatever a
\* request under way on the key does afterwards.
ResetClearsEarlierMessages ==
    \A u \in Tasks :
        (tasks[u].op = "wipeconvo" /\ tasks[u].pc \in {"notice", "done"})
            => \A i \in 1..Len(StoredMessages(tasks[u].key)) :
                   StoredMessages(tasks[u].key)[i].timestamp >= tasks[u].reset_at

\* C28: a request goes on to send_discord_safe only from a save of
\* generate_response that wrote the document with the assistant's turn; when
\* that save fails the request sends the failure notice next and never calls
\* send_discord_safe.
AnswerOnlyAfterAssistantTurnStored ==
    [][\A t \in Tasks :
          IsRequest(t) =>
              /\ (tasks[t].pc # "send" /\ tasks'[t].pc = "send")
                     => /\ tasks[t].pc = "save_write" /\ tasks[t].saving = "gen"
                        /\ faults' = faults
                        /\ files'[tasks[t].key].state = "doc"
                        /\ files'[tasks[t].key].data.messages = tasks[t].conversation.messages
                        /\ LET m == files'[tasks[t].key].data.messages[
                                        Len(tasks[t].conversation.messages)]
                           IN m.role = "assistant" /\ m.content = tasks[t].response_text
              /\ tasks'[t].send # IdleCall => tasks'[t].pc \in {"send", "except", "done"}
              /\ (tasks[t].saving = "gen" /\ tasks[t].pc \in {"save_open", "save_write"}
                      /\ tasks'[t] # tasks[t] /\ faults' # faults)
                     => /\ tasks'[t].pc = "notice"
                        /\ tasks'[t].pending = FAILED_TO_GENERATE
                        /\ tasks'[t].send = IdleCall
              /\ (tasks[t].pc \in {"notice", "except"} /\ tasks[t].send = IdleCall)
                     => tasks'[t].send = IdleCall]_vars

AssistantSaveFailedNoticed ==
    \E t \in Tasks :
        /\ IsRequest(t)
        /\ tasks[t].pc = "done"
        /\ tasks[t].saving = "gen"
        /\ tasks[t].provided = "text"
        /\ tasks[t].notices = <<FAILED_TO_GENERATE>>
        /\ tasks[t].send = IdleCall
        /\ files[tasks[t].key].state = "empty"

\* the text between the added "```markdown\n" and the closing "\n```"
wrapper_payload(msg) == Slice(msg, StrLen(MARKDOWN_OPEN), StrLen(msg) - 4)

\* C30: in wrap mode the step of the send loop that sends a chunk with the
\* markdown wrapper added sends a message whose payload, the text between the
\* wrapper's opening and closing fence, holds no fenced code block.
NoCodeBlockInsideWrapper ==
    [][(/\ call.pc = "loop" /\ call.wrap
        /\ Len(call'.sent) = Len(call.sent) + 1
        /\ ~StartsWithFence(Strip(call.chunks[call.i])))
       => LET msg == call'.sent[Len(call'.sent)] IN
          /\ Take(msg, StrLen(MARKDOWN_OPEN)) = MARKDOWN_OPEN
          /\ code_block_ranges(wrapper_payload(msg)) = <<>>]_vars

(***************************************************************************)
(* shared/error_handler.py: log_error, and the rotation of the error logs  *)
(* it calls for.  The size of a file is counted in records, and a file     *)
(* that exists holds at least one.  log_error is synchronous: from its     *)
(* call to its return only the clock moves beside it.                      *)
(***************************************************************************)
\* self.max_log_size, in records
MaxLogSize == 2

\* self.max_log_files
max_log_files == 5

\* the interpreter's limit on nested calls, in frames of _rotate_logs
RecursionLimit == 3

\* the records one file holds at most in a behaviour
MaxRecords == 4

\* glob.glob("error_*.log"): the days that have a log file
log_files(logs) == {d \in Days : logs[d] > 0}

\* shutil.move(current_log, new_log): the file takes the new name, in place
\* of a file of that name; moved to its own name it stays as it is
move(logs, current_log, new_log) ==
    IF current_log = new_log THEN logs
    ELSE [logs EXCEPT ![new_log] = logs[current_log], ![current_log] = 0]

\* self._rotate_logs() called from _rotate_logs when the exception of a call
\* beyond the limit is not caught
rotate_again_uncaught(l) ==
    IF l.depth < RecursionLimit THEN [l EXCEPT !.depth = l.depth + 1]
    ELSE [l EXCEPT !.pc = "raised"]

\* self._rotate_logs() called from _rotate_logs: one frame more, or, at the
\* limit, RecursionError, which "except Exception" catches and logs
rotate_again(l) ==
    IF l.depth < RecursionLimit THEN [l EXCEPT !.depth = l.depth + 1]
    ELSE [l EXCEPT !.pc = "return", !.rotation_error = TRUE]

\* log_error up to the return of _get_current_log_file's test: the file of
\* the day is chosen, and _rotate_logs is called when it is there and at or
\* above the size limit
LogError ==
    /\ logger.pc = "idle"
    /\ error_logs[today] < MaxRecords
    /\ logger' = IF error_logs[today] > 0 /\ error_logs[today] >= MaxLogSize
                 THEN [IdleLogger EXCEPT !.pc = "rotate", !.log_file = today, !.depth = 1]
                 ELSE [IdleLogger EXCEPT !.pc = "append", !.log_file = today]
    /\ UNCHANGED <<error_logs, archives, today, sendVars, chatVars, pureVars>>

\* one turn of "while len(log_files) >= self.max_log_files": the oldest file
\* is compressed and removed
RotateCompress ==
    /\ logger.pc = "rotate"
    /\ Cardinality(log_files(error_logs)) >= max_log_files
    /\ LET oldest_file == MinOf(log_files(error_logs)) IN
           /\ archives' = archives \cup {oldest_file}
           /\ error_logs' = [error_logs EXCEPT ![oldest_file] = 0]
    /\ UNCHANGED <<today, logger, sendVars, chatVars, pureVars>>

\* _rotate_logs after the loop: the newest file, when at or above the size
\* limit, is moved to the name of the day and _rotate_logs calls itself
RotateCheck ==
    /\ logger.pc = "rotate"
    /\ Cardinality(log_files(error_logs)) < max_log_files
    /\ IF log_files(error_logs) # {}
          /\ error_logs[MaxOf(log_files(error_logs))] >= MaxLogSize
       THEN /\ error_logs' = move(error_logs, MaxOf(log_files(error_logs)), today)
            /\ logger' = rotate_again(logger)
       ELSE /\ logger' = [logger EXCEPT !.pc = "return"]
            /\ UNCHANGED error_logs
    /\ UNCHANGED <<archives, today, sendVars, chatVars, pureVars>>

\* a frame of _rotate_logs returns, the outermost one to
\* _get_current_log_file, which returns log_file
RotateReturn ==
    /\ logger.pc = "return"
    /\ logger' = IF logger.depth > 1 THEN [logger EXCEPT !.depth = logger.depth - 1]
                 ELSE [logger EXCEPT !.pc = "append", !.depth = 0]
    /\ UNCHANGED <<error_logs, archives, today, sendVars, chatVars, pureVars>>

\* open(log_file, "a"), json.dump and the newline: one record more
AppendRecord ==
    /\ logger.pc = "append"
    /\ error_logs' = [error_logs EXCEPT ![logger.log_file] = error_logs[logger.log_file] + 1]
    /\ logger' = IdleLogger
    /\ UNCHANGED <<archives, today, sendVars, chatVars, pureVars>>

\* midnight: datetime.now() gives the next day
NextDay ==
    /\ today < MaxDay
    /\ today' = today + 1
    /\ UNCHANGED <<error_logs, archives, logger, sendVars, chatVars, pureVars>>

\* the steps of a log_error call in progress
LogStep == RotateCompress \/ RotateCheck \/ RotateReturn \/ AppendRecord

LogNext == LogError \/ NextDay \/ LogStep

LogSpec == Init /\ [][LogNext]_vars

\* a log_error call in progress goes on
LogFairSpec == LogSpec /\ WF_vars(LogStep)

\* C24: the step of log_error that appends a record appends it to a file
\* that is below max_log_size, so that the file is at most at max_log_size
\* after it.
AppendsOnlyBelowMaxLogSize ==
    [][(logger.pc = "append" /\ logger'.pc = "idle")
       => /\ error_logs[logger.log_file] < MaxLogSize
          /\ error_logs'[logger.log_file] <= MaxLogSize]_vars

\* C29: a call of _rotate_logs returns to _get_current_log_file, whatever
\* the directory holds, and the log_error call that made it then appends its
\* record and returns.
RotateLogsReturns ==
    /\ (logger.pc = "rotate") ~> (logger.pc = "append")
    /\ (logger.pc = "append") ~> (logger.pc = "idle")

\* _rotate_logs has returned to a log_error call whose file is the newest
\* one, the file of the day, at or above max_log_size
ReturnedWithTodayAtMaxLogSize ==
    /\ logger.pc = "append"
    /\ logger.rotation_error
    /\ logger.log_file = today
    /\ today = MaxOf(log_files(error_logs))
    /\ error_logs[today] >= MaxLogSize

====
